---------------------------- MODULE Spec2Model ----------------------------
(***************************************************************************)
(* Model of scripts/send-test-messages.py: main() parses --count and       *)
(* --delay and calls send_messages(), which connects a KafkaProducer and   *)
(* then, per message, builds an order record, publishes it, waits for the  *)
(* delivery acknowledgment, reports, and sleeps between messages; the      *)
(* producer is closed after the loop.  Exceptions propagate as in Python:  *)
(* `except KafkaError` inside the loop covers the wait only, main() has    *)
(* `except KeyboardInterrupt` and `except Exception`.                      *)
(***************************************************************************)
EXTENDS Integers, Sequences, FiniteSets, TLC

VARIABLES
    pc,             \* position of the single thread of control
    num_messages,   \* args.count
    delay_seconds,  \* args.delay
    i,              \* loop index of `for i in range(num_messages)`
    now,            \* wall clock, in microseconds
    order_id,       \* local of send_messages (NoValue before the first build)
    message,        \* local of send_messages (NoValue before the first build)
    exc,            \* the exception that left send_messages, or NoExc
    trace           \* every call made and every line group printed, in order

vars == <<pc, num_messages, delay_seconds, i, now, order_id, message, exc, trace>>

-----------------------------------------------------------------------------
(* Bounds of the model *)

MaxCount == 3       \* --count ranges over 0..MaxCount

Counts == 0 .. MaxCount
Delays == {-1, 0, 1}            \* --delay, in seconds (argparse accepts any float)
Elapsed == {0, 500}             \* microseconds a resolved delivery wait can take

-----------------------------------------------------------------------------
(* Module-level constants of the script *)

TOPIC_NAME == "orders"

CUSTOMER_IDS == <<"customer-001", "customer-002", "customer-003",
                  "customer-004", "customer-005">>

PRODUCT_IDS == <<"product-001", "product-002", "product-003",
                 "product-004", "product-005">>

NoValue == [none |-> TRUE]
NoExc == [class |-> "None", at |-> "None", n |-> 0]

-----------------------------------------------------------------------------
(* Python exception classes that occur, with their base class *)

Base(c) ==
    CASE c = "KafkaTimeoutError" -> "KafkaError"
      [] c = "NoBrokersAvailable" -> "KafkaError"
      [] c = "KafkaError" -> "RuntimeError"
      [] c = "RuntimeError" -> "Exception"
      [] c = "ValueError" -> "Exception"
      [] c = "TypeError" -> "Exception"
      [] c = "Exception" -> "BaseException"
      [] c = "KeyboardInterrupt" -> "BaseException"
      [] OTHER -> "object"

RECURSIVE IsInstance(_, _)
IsInstance(c, handler) ==
    IF c = handler THEN TRUE
    ELSE IF c \in {"BaseException", "object"} THEN FALSE
    ELSE IsInstance(Base(c), handler)

(* main() without its `except Exception` clause *)
MainHandlerInterruptOnly(c) ==
    IF IsInstance(c, "KeyboardInterrupt") THEN "interrupted" ELSE "uncaught"

(* main(): the first handler of the try statement that matches, in order *)
MainHandler(c) ==
    IF IsInstance(c, "KeyboardInterrupt") THEN "interrupted"
    ELSE IF IsInstance(c, "Exception") THEN "error"
    ELSE "uncaught"

(* the try statement around future.get without an except clause *)
LoopHandlerNone(c) == "propagate"

(* an except clause that matches the class KafkaError but not its subclasses *)
LoopHandlerExact(c) ==
    IF c = "KafkaError" THEN "failure" ELSE "propagate"

(* send_messages(): the handler of the try statement around future.get *)
LoopHandler(c) ==
    IF IsInstance(c, "KafkaError") THEN "failure" ELSE "propagate"

-----------------------------------------------------------------------------
(* The random module and the record builder *)

Choice(seq) == {seq[j] : j \in DOMAIN seq}

RandInt(a, b) == a .. b

(* random.choices in place of random.sample: draws with replacement *)
SampleWithReplacement(population, k) ==
    {[j \in 1 .. k |-> population[p[j]]] : p \in [1 .. k -> DOMAIN population]}

(* random.sample(population, k): k entries at pairwise distinct positions *)
Sample(population, k) ==
    LET Picks == {p \in [1 .. k -> DOMAIN population] :
                    \A x, y \in 1 .. k : x # y => p[x] # p[y]}
    IN  {[j \in 1 .. k |-> population[p[j]]] : p \in Picks}

(* f"order-{int(time.time() * 1000)}": with the clock t in microseconds,     *)
(* time.time() * 1000 is t / 1000 milliseconds, which int() truncates        *)
OrderIdAt(t) == <<"order-", t \div 1000>>

(* create_order_message(): every (order_id, message) it can return at time t *)
create_order_message(t) ==
    {[order_id |-> OrderIdAt(t),
      message |-> [orderId |-> OrderIdAt(t),
                   customerId |-> c,
                   productIds |-> p,
                   timestamp |-> <<"iso", t>>]] :
        c \in Choice(CUSTOMER_IDS),
        p \in UNION {Sample(PRODUCT_IDS, k) : k \in RandInt(1, 3)}}

-----------------------------------------------------------------------------
(* The events recorded in trace *)

Ev(op, n, key, info) == [op |-> op, n |-> n, key |-> key, info |-> info]

NoKey == <<>>

(* send_messages is left, by return or by an exception: its locals are gone *)
FrameGone ==
    /\ i' = 0
    /\ order_id' = NoValue
    /\ message' = NoValue

(* an exception leaves send_messages and reaches the try statement of main *)
Propagate(c, events) ==
    /\ exc' = [class |-> c, at |-> pc, n |-> i + 1]
    /\ pc' = MainHandler(c)
    /\ trace' = trace \o events \o <<Ev(MainHandler(c), 0, NoKey, c)>>
    /\ FrameGone

(* range(num_messages + 1) in place of range(num_messages) *)
LoopHeadOneMore(j) == IF j < num_messages + 1 THEN "build" ELSE "close"

(* the loop header `for i in range(num_messages)` reached with index j *)
LoopHead(j) == IF j < num_messages THEN "build" ELSE "close"

(* `if i < num_messages:` in place of `if i < num_messages - 1:` *)
SleepDueAlways(j) == j < num_messages

(* `if i < num_messages - 1:` *)
SleepDue(j) == j < num_messages - 1

-----------------------------------------------------------------------------
Init ==
    /\ pc = "connect"
    /\ num_messages \in Counts
    /\ delay_seconds \in Delays
    /\ i = 0
    /\ now = 0
    /\ order_id = NoValue
    /\ message = NoValue
    /\ exc = NoExc
    /\ trace = <<>>

(* KafkaProducer(...) and the four header lines *)
Connect ==
    /\ pc = "connect"
    /\ pc' = LoopHead(0)
    /\ trace' = trace \o <<Ev("connect", 0, NoKey, ""), Ev("header", 0, NoKey, "")>>
    /\ UNCHANGED <<num_messages, delay_seconds, i, now, order_id, message, exc>>

(* KafkaProducer(...) finds no broker *)
ConnectFails ==
    /\ pc = "connect"
    /\ Propagate("NoBrokersAvailable", <<>>)
    /\ UNCHANGED <<num_messages, delay_seconds, now>>

(* order_id, message = create_order_message() *)
Build ==
    /\ pc = "build"
    /\ \E r \in create_order_message(now) :
          /\ order_id' = r.order_id
          /\ message' = r.message
          /\ trace' = Append(trace, Ev("build", i + 1, r.order_id, ""))
    /\ pc' = "send"
    /\ UNCHANGED <<num_messages, delay_seconds, i, now, exc>>

(* future = producer.send(topic=TOPIC_NAME, key=order_id, value=message) *)
Send ==
    /\ pc = "send"
    /\ trace' = Append(trace, Ev("send", i + 1, order_id, TOPIC_NAME))
    /\ pc' = "wait"
    /\ UNCHANGED <<num_messages, delay_seconds, i, now, order_id, message, exc>>

(* producer.send raises: the topic metadata is not available in time *)
SendFails ==
    /\ pc = "send"
    /\ Propagate("KafkaTimeoutError", <<Ev("send", i + 1, order_id, TOPIC_NAME)>>)
    /\ UNCHANGED <<num_messages, delay_seconds, now>>

(* future.get(timeout=10): returns the metadata, or raises what the sender *)
(* thread stored in the future, or raises KafkaTimeoutError after 10 s      *)
FutureGet ==
    {[outcome |-> "ack", raises |-> "None", took |-> el] : el \in Elapsed}
    \cup {[outcome |-> "delivery_error", raises |-> "KafkaError", took |-> el] :
            el \in Elapsed}
    \cup {[outcome |-> "other_error", raises |-> "RuntimeError", took |-> el] :
            el \in Elapsed}
    \cup {[outcome |-> "timeout", raises |-> "KafkaTimeoutError",
           took |-> 10 * 1000000]}

(* order_id and message are not read after the try statement and are rebound *)
(* by the next iteration: the model drops them when the statement ends       *)
Rebound ==
    /\ order_id' = NoValue
    /\ message' = NoValue

(* the try statement: future.get, the success report, the except clause *)
Wait ==
    /\ pc = "wait"
    /\ \E g \in FutureGet :
          /\ now' = now + g.took
          /\ IF g.raises = "None"
             THEN /\ trace' = Append(trace, Ev("success", i + 1, order_id, g.outcome))
                  /\ pc' = "pace"
                  /\ Rebound
                  /\ UNCHANGED <<exc, i>>
             ELSE IF LoopHandler(g.raises) = "failure"
             THEN /\ trace' = Append(trace, Ev("failure", i + 1, order_id, g.outcome))
                  /\ pc' = "pace"
                  /\ Rebound
                  /\ UNCHANGED <<exc, i>>
             ELSE Propagate(g.raises, <<>>)
    /\ UNCHANGED <<num_messages, delay_seconds>>

(* `if i < num_messages - 1: time.sleep(delay_seconds)`, then the loop header *)
Pace ==
    /\ pc = "pace"
    /\ IF SleepDue(i)
       THEN IF delay_seconds < 0
            THEN /\ Propagate("ValueError", <<Ev("sleep", i + 1, NoKey, "raises")>>)
                 /\ now' = now
            ELSE /\ trace' = Append(trace, Ev("sleep", i + 1, NoKey, ""))
                 /\ now' = now + delay_seconds * 1000000
                 /\ i' = i + 1
                 /\ pc' = LoopHead(i + 1)
                 /\ UNCHANGED <<exc, order_id, message>>
       ELSE /\ i' = i + 1
            /\ pc' = LoopHead(i + 1)
            /\ UNCHANGED <<now, exc, trace, order_id, message>>
    /\ UNCHANGED <<num_messages, delay_seconds>>

(* the closing line without producer.close() *)
CloseForgotten ==
    /\ pc = "close"
    /\ trace' = trace \o <<Ev("all_sent", 0, NoKey, "")>>
    /\ pc' = "done"
    /\ FrameGone
    /\ UNCHANGED <<num_messages, delay_seconds, now, exc>>

(* producer.close() and the closing line; send_messages returns to main *)
Close ==
    /\ pc = "close"
    /\ trace' = trace \o <<Ev("close", 0, NoKey, ""), Ev("all_sent", 0, NoKey, "")>>
    /\ pc' = "done"
    /\ FrameGone
    /\ UNCHANGED <<num_messages, delay_seconds, now, exc>>

(* a Ctrl-C that is held back while the delivery wait is in flight: the wait *)
(* resolves and is reported before the interrupt takes effect                *)
InterruptAfterReport ==
    /\ pc \in {"connect", "build", "send", "wait", "pace", "close"}
    /\ IF pc = "wait"
       THEN Propagate("KeyboardInterrupt", <<Ev("success", i + 1, order_id, "ack")>>)
       ELSE Propagate("KeyboardInterrupt", <<>>)
    /\ UNCHANGED <<num_messages, delay_seconds, now>>

(* the operator presses Ctrl-C while send_messages runs: KeyboardInterrupt *)
(* is raised in the main thread wherever it is, blocking calls included    *)
Interrupt ==
    /\ pc \in {"connect", "build", "send", "wait", "pace", "close"}
    /\ Propagate("KeyboardInterrupt", <<>>)
    /\ UNCHANGED <<num_messages, delay_seconds, now>>

Next ==
    \/ Connect
    \/ ConnectFails
    \/ Build
    \/ Send
    \/ SendFails
    \/ Wait
    \/ Pace
    \/ Close
    \/ Interrupt

Spec == Init /\ [][Next]_vars

-----------------------------------------------------------------------------
(* Reading the trace *)

ReportOps == {"success", "failure"}

EventsOf(ops) == SelectSeq(trace, LAMBDA e : e.op \in ops)

Count(op) == Len(EventsOf({op}))

(* the number of events of kind op for message n *)
CountFor(op, n) == Cardinality({k \in DOMAIN trace : trace[k].op = op /\ trace[k].n = n})

Reports == EventsOf(ReportOps)

(* the publish calls and the reports, in order *)
PublishesAndReports == EventsOf({"send"} \cup ReportOps)

Ended == pc \in {"done", "interrupted", "error", "uncaught"}

Interrupted == exc.class = "KeyboardInterrupt"

(* the producer connected, accepted every record and acknowledged each one *)
PublisherAlwaysSucceeded ==
    /\ exc.at \notin {"connect", "send", "wait"}
    /\ Count("failure") = 0

(* send k is followed by report k, which is followed by send k + 1 *)
Alternates ==
    \A j \in DOMAIN PublishesAndReports :
        LET e == PublishesAndReports[j]
        IN  IF j % 2 = 1
            THEN e.op = "send" /\ e.n = (j + 1) \div 2
            ELSE e.op \in ReportOps /\ e.n = j \div 2

(* nothing of the loop body is recorded after position k of the trace *)
NoLoopWorkAfter(k) ==
    \A m \in DOMAIN trace :
        m > k => trace[m].op \notin {"build", "send", "sleep"} \cup ReportOps

-----------------------------------------------------------------------------
(* C1: if the operator interrupt arrives between two iterations (message i   *)
(* is reported, message i+1 is not built yet, i < N; the loop is in its      *)
(* sleep), no further record is built or published and producer.close() is  *)
(* still performed before the process ends.                                  *)
C1_InterruptBetweenIterationsStillCloses ==
    (pc = "interrupted" /\ exc.at = "pace" /\ exc.n < num_messages
        /\ delay_seconds >= 0)
        => /\ Count("build") = exc.n
           /\ Count("send") = exc.n
           /\ Count("close") = 1

-----------------------------------------------------------------------------
(* C2: a delivery error raised by the wait of message k is reported as a     *)
(* failure of message k and the loop goes on: it never ends the run, no      *)
(* message is published or reported twice, a report is a success exactly     *)
(* when the delivery was acknowledged, and a run that returns has made N     *)
(* publish calls and one report per message.                                 *)
C2_DeliveryErrorReportedAndSkipped ==
    /\ ~(Ended /\ exc.at = "wait" /\ IsInstance(exc.class, "KafkaError"))
    /\ \A n \in 1 .. MaxCount + 1 :
          /\ CountFor("send", n) <= 1
          /\ CountFor("success", n) + CountFor("failure", n) <= CountFor("send", n)
    /\ \A k \in DOMAIN trace :
          /\ trace[k].op = "success" => trace[k].info = "ack"
          /\ trace[k].op = "failure" => trace[k].info \in {"delivery_error", "timeout"}
    /\ pc = "done" =>
          /\ Count("send") = num_messages
          /\ \A n \in 1 .. num_messages :
                CountFor("success", n) + CountFor("failure", n) = 1

C2_Witness ==
    /\ pc = "done"
    /\ num_messages = 3
    /\ [j \in 1 .. 3 |-> Reports[j].op] = <<"success", "failure", "success">>
    /\ Reports[2].info = "delivery_error"

-----------------------------------------------------------------------------
(* C3 as stated: for any count and ANY delay, a run without interrupt whose  *)
(* publisher always succeeds makes exactly N publish calls and prints        *)
(* exactly N success reports, publish and report alternating.                *)
C3_AnyDelay ==
    /\ Alternates
    /\ (Ended /\ ~Interrupted /\ PublisherAlwaysSucceeded)
          => Count("send") = num_messages /\ Count("success") = num_messages

(* C3 amended: the same for any count and any delay >= 0.                    *)
C3_NonNegativeDelay ==
    /\ Alternates
    /\ (Ended /\ ~Interrupted /\ PublisherAlwaysSucceeded /\ delay_seconds >= 0)
          => /\ Count("send") = num_messages
             /\ Count("success") = num_messages
             /\ pc = "done"

C3_Witness ==
    /\ pc = "done"
    /\ num_messages = 3
    /\ delay_seconds = 0
    /\ Count("send") = 3
    /\ Count("success") = 3

-----------------------------------------------------------------------------
(* C4: the loop sleeps once right after the report of each message i < N and *)
(* never after the report of message N, whether the report is a success or a *)
(* failure; a run that returns with N >= 1 has slept exactly N - 1 times.    *)
C4_SleepBetweenMessagesOnly ==
    /\ \A k \in DOMAIN trace :
          /\ trace[k].op = "sleep" =>
                /\ trace[k].n < num_messages
                /\ k > 1
                /\ trace[k - 1].op \in ReportOps
                /\ trace[k - 1].n = trace[k].n
          /\ (trace[k].op \in ReportOps /\ k < Len(trace)
                /\ trace[k + 1].op # "interrupted") =>
                IF trace[k].n < num_messages
                THEN trace[k + 1].op = "sleep"
                ELSE trace[k + 1].op = "close"
    /\ (pc = "done" /\ num_messages >= 1) => Count("sleep") = num_messages - 1

C4_Witness ==
    /\ pc = "done"
    /\ num_messages = 3
    /\ Count("sleep") = 2
    /\ Count("failure") = 1
    /\ Reports[3].op = "success"

-----------------------------------------------------------------------------
(* C5: once the loop has completed its N iterations the producer is closed   *)
(* exactly once, after the report of the last message; the run then is in    *)
(* its terminal state and nothing is built, published or slept after the     *)
(* close.                                                                    *)
C5_ClosedOnceAfterLoop ==
    /\ Count("close") <= 1
    /\ pc = "close" => Len(Reports) = num_messages /\ Count("close") = 0
    /\ \A k \in DOMAIN trace :
          trace[k].op = "close" =>
              /\ Len(Reports) = num_messages
              /\ NoLoopWorkAfter(k)
              /\ pc = "done"
    /\ pc = "done" =>
          /\ Count("close") = 1
          /\ Len(Reports) = num_messages
          /\ ~ENABLED Next

C5_Witness ==
    /\ pc = "done"
    /\ num_messages = 2
    /\ Count("close") = 1
    /\ Reports[2].op = "failure"

-----------------------------------------------------------------------------
(* C6: a delivery wait that exceeds its timeout is a failed delivery: the    *)
(* timeout never ends the run, it is reported as a failure of that message,  *)
(* the loop carries on with the next message, and a run that returns has     *)
(* closed the producer.                                                      *)
C6_TimeoutIsFailedDelivery ==
    /\ ~(Ended /\ exc.at = "wait" /\ exc.class = "KafkaTimeoutError")
    /\ \A k \in DOMAIN trace :
          trace[k].info = "timeout" =>
              /\ trace[k].op = "failure"
              /\ (k < Len(trace) /\ trace[k + 1].op # "interrupted") =>
                    trace[k + 1].op \in {"sleep", "close"}
    /\ pc = "done" => Count("close") = 1

C6_Witness ==
    /\ pc = "done"
    /\ num_messages = 2
    /\ Reports[1].info = "timeout"
    /\ Reports[2].op = "success"
    /\ Count("close") = 1

-----------------------------------------------------------------------------
(* C7: within one run any two records built have different orderId values,  *)
(* so no two publish calls use the same key.                                 *)
C7_OrderIdsDistinct ==
    /\ \A j, k \in DOMAIN trace :
          (j # k /\ trace[j].op = "build" /\ trace[k].op = "build")
              => trace[j].key # trace[k].key
    /\ \A j, k \in DOMAIN trace :
          (j # k /\ trace[j].op = "send" /\ trace[k].op = "send")
              => trace[j].key # trace[k].key

-----------------------------------------------------------------------------
(* C8: every record returned by create_order_message has between 1 and 3     *)
(* productIds, pairwise distinct, each a member of the product catalog.      *)
C8_ProductIdsWellFormed ==
    message # NoValue =>
        LET p == message.productIds
        IN  /\ Len(p) \in 1 .. 3
            /\ \A x, y \in DOMAIN p : x # y => p[x] # p[y]
            /\ \A x \in DOMAIN p : p[x] \in Choice(PRODUCT_IDS)

C8_Witness ==
    /\ message # NoValue
    /\ Len(message.productIds) = 3
    /\ pc = "send"

-----------------------------------------------------------------------------
-----------------------------------------------------------------------------
(* C10: an error other than a delivery error raised while connecting,        *)
(* publishing or waiting for message i is not handled in the loop: main      *)
(* catches it and logs an error line, message i gets no report, and the      *)
(* process ends with no further build, publish or sleep.                     *)
C10_UnexpectedErrorEndsRun ==
    /\ pc # "uncaught"
    /\ (exc # NoExc /\ ~Interrupted) => pc = "error"
    /\ pc = "error" =>
          /\ IsInstance(exc.class, "Exception")
          /\ trace[Len(trace)].op = "error"
          /\ trace[Len(trace)].info = exc.class
          /\ Count("error") = 1
          /\ Count("build") <= exc.n
          /\ Count("send") <= exc.n
          /\ Count("sleep") <= exc.n
          /\ exc.at \in {"connect", "send", "wait"} =>
                /\ Len(Reports) = IF exc.at = "connect" THEN 0 ELSE exc.n - 1
                /\ LoopHandler(exc.class) = "propagate" \/ exc.at # "wait"
          /\ ~ENABLED Next

C10_Witness ==
    /\ pc = "error"
    /\ exc.at = "wait"
    /\ exc.class = "RuntimeError"
    /\ exc.n = 2
    /\ num_messages = 3

=============================================================================
